---- MODULE Spec2Model ----
(***************************************************************************)
(* Model of yggdrasil-keys-rs: the bit-level helpers of src/helper.rs      *)
(* (leading_ones, strip_ones, hex_pair_to_bytes) and the NodeId / TreeId   *)
(* operations of src/keys.rs (strength, address_bytes and its wrappers),   *)
(* and the hex import and export of SigningKeys.                           *)
(*                                                                         *)
(* Bytes are naturals 0..255, byte strings are sequences.  Rust indices    *)
(* are 0-based; At(s, i) reads s[i] the way the code writes it.  A Rust    *)
(* panic (failed assert!, index or slice out of range, arithmetic overflow *)
(* with overflow checks on) is the result Panic.  Arithmetic that only     *)
(* panics when the build has overflow checks (the dev profile) wraps when  *)
(* it has none (the release profile); overflow_checks is the build.        *)
(***************************************************************************)
EXTENDS Integers, Sequences, FiniteSets, TLC

VARIABLES id, overflow_checks, call, ret, keys

vars == <<id, overflow_checks, call, ret, keys>>

----------------------------------------------------------------------------
(* Program constants *)

\* GenericArray<u8, U64>: the length of a NodeId / TreeId
IdLen == 64
\* const INVERTER: u8 = 255u8
INVERTER == 255
\* NodeId::ADDR_BYTE, NodeId::SNET_BYTE
ADDR_BYTE == 254
SNET_BYTE == 1
\* NodeId::IP_PREFIX
IP_PREFIX == <<2>>

----------------------------------------------------------------------------
(* Bounds of the input families *)

\* tail patterns 0..MaxTail of the generated ids
MaxTail == 1
\* prefixes of length 0..MaxPrefixLen are passed to the *_with_prefix calls
MaxPrefixLen == 15
\* key material patterns 0..MaxSeed of the hex inputs
MaxSeed == 1

----------------------------------------------------------------------------
(* Results *)

None == <<>>
Some(x) == <<x>>

\* what a call hands back to its caller: the result r, Ret(v) or Panic, with
\* the declared return type ty of the method called
Returned(ty, r) == [ty |-> ty, kind |-> r.kind, val |-> r.val]
NoRet == [ty |-> "none", kind |-> "none", val |-> None]

Panic == [kind |-> "panic", val |-> None]
Ret(v) == [kind |-> "return", val |-> v]
NoCall == [op |-> "none"]

\* slice[i], 0-based; callers check the range first
At(s, i) == s[i + 1]
\* &s[from..to], 0-based, to exclusive; callers check the range first
Slice(s, from, to) == SubSeq(s, from + 1, to)

----------------------------------------------------------------------------
(* u8 arithmetic *)

Bit(x, k) == (x \div (2 ^ k)) % 2

\* The bitwise operators on u8, bit by bit
OrBits(x, y) ==
    LET o(k) == IF Bit(x, k) = 1 \/ Bit(y, k) = 1 THEN 2 ^ k ELSE 0
    IN o(0) + o(1) + o(2) + o(3) + o(4) + o(5) + o(6) + o(7)
AndBits(x, y) ==
    LET o(k) == IF Bit(x, k) = 1 /\ Bit(y, k) = 1 THEN 2 ^ k ELSE 0
    IN o(0) + o(1) + o(2) + o(3) + o(4) + o(5) + o(6) + o(7)
XorBits(x, y) ==
    LET o(k) == IF Bit(x, k) # Bit(y, k) THEN 2 ^ k ELSE 0
    IN o(0) + o(1) + o(2) + o(3) + o(4) + o(5) + o(6) + o(7)

\* Their values for every pair of bytes, computed once (entry [x + 1][y + 1];
\* the concatenation with <<>> makes each row and the table a tuple)
OrTable == [x \in 1..256 |-> [y \in 1..256 |-> OrBits(x - 1, y - 1)] \o <<>>] \o <<>>
AndTable == [x \in 1..256 |-> [y \in 1..256 |-> AndBits(x - 1, y - 1)] \o <<>>] \o <<>>
XorTable == [x \in 1..256 |-> [y \in 1..256 |-> XorBits(x - 1, y - 1)] \o <<>>] \o <<>>

\* a | b, a & b, a ^ b on u8
BitOr8(a, b) == OrTable[a + 1][b + 1]
BitAnd8(a, b) == AndTable[a + 1][b + 1]
BitXor8(a, b) == XorTable[a + 1][b + 1]

\* u8::leading_zeros
u8_leading_zeros(x) ==
    [v \in 0..255 |->
        IF v >= 128 THEN 0
        ELSE IF v >= 64 THEN 1
        ELSE IF v >= 32 THEN 2
        ELSE IF v >= 16 THEN 3
        ELSE IF v >= 8 THEN 4
        ELSE IF v >= 4 THEN 5
        ELSE IF v >= 2 THEN 6
        ELSE IF v >= 1 THEN 7
        ELSE 8][x]

\* x << s on u8 where the shift amount is in range (s < 8)
Shl8(x, s) == (x * (2 ^ s)) % 256
\* x >> s on u8 where the shift amount is in range (s < 8)
Shr8(x, s) == x \div (2 ^ s)

\* x << s as the build evaluates it: with overflow checks a shift amount of
\* 8 or more panics; without, the amount is masked to its low 3 bits
CheckedShl8(checks, x, s) ==
    IF s >= 8
    THEN (IF checks THEN Panic ELSE Ret(Shl8(x, s % 8)))
    ELSE Ret(Shl8(x, s))

CheckedShr8(checks, x, s) ==
    IF s >= 8
    THEN (IF checks THEN Panic ELSE Ret(Shr8(x, s % 8)))
    ELSE Ret(Shr8(x, s))

----------------------------------------------------------------------------
(* helper.rs: leading_ones *)

\* the loop condition: while (leading_ones / 8) < 64
leading_ones_guard_inclusive(ones) == (ones \div 8) <= IdLen
leading_ones_guard(ones) == (ones \div 8) < IdLen

\* inverted_byte.leading_zeros() of the byte at index j
local_leading_ones_uninverted(sha512, j) ==
    u8_leading_zeros(At(sha512, j))
local_leading_ones(sha512, j) ==
    u8_leading_zeros(BitXor8(At(sha512, j), INVERTER))

\* Ret(u32) or Panic.  A pass that finds 8 leading ones adds 8 and goes on,
\* so pass j (j = 0, 1, ...) is entered with leading_ones = 8 * j and reads
\* byte j.  The loop ends at the first j where the condition fails (the count
\* is 8 * j), or the index is out of range (a panic), or the byte has a zero
\* bit (the break).
leading_ones(sha512) ==
    LET ends(j) == \/ ~leading_ones_guard(8 * j)
                   \/ j >= Len(sha512)
                   \/ local_leading_ones(sha512, j) # 8
    IN [j \in 0..(IdLen + 1) |->
          IF ~leading_ones_guard(8 * j) THEN Ret(8 * j)
          ELSE IF j >= Len(sha512) THEN Panic
          ELSE Ret(8 * j + local_leading_ones(sha512, j))
       ][CHOOSE j \in 0..(IdLen + 1) : ends(j) /\ \A i \in 0..(j - 1) : ~ends(i)]

\* the byte indices leading_ones reads, sha512[(leading_ones / 8) as usize]:
\* pass j of the loop runs, and reads byte j, if the guard lets it in and
\* every pass before it counted 8
leading_ones_reads(sha512) ==
    {j \in 0..(IdLen + 1) :
       /\ leading_ones_guard(8 * j)
       /\ \A i \in 0..(j - 1) : i < Len(sha512) /\ local_leading_ones(sha512, i) = 8}

----------------------------------------------------------------------------
(* helper.rs: strip_ones *)

\* The modulus of usize.  The code runs with 2^64 (or 2^32); the checker's
\* integers are 32-bit, so the model wraps at 2^30.  A wrapped value is only
\* ever used as an index or a loop bound, compared with lengths of at most
\* IdLen, and 2^30 - 2 exceeds them all just as 2^64 - 2 does.
UsizeModulus == 2 ^ 30

\* usize subtraction a - b: with overflow checks a negative result panics,
\* without it wraps
CheckedSubUsize(checks, a, b) ==
    IF a >= b THEN Ret(a - b)
    ELSE IF checks THEN Panic ELSE Ret(a - b + UsizeModulus)

\* One pass of the loop body at index i:
\*   lhs = slice[i] << shift; rhs = slice[i + 1] >> (8 - shift); vec.push(lhs | rhs)
\* Ret(the byte pushed) or Panic
strip_ones_step(checks, slice, shift, i) ==
    IF i >= Len(slice) THEN Panic
    ELSE CHOOSE r \in
           {IF lhs.kind = "panic" THEN Panic
            ELSE IF i + 1 >= Len(slice) THEN Panic
            ELSE CHOOSE q \in
                   {IF rhs.kind = "panic" THEN Panic
                    ELSE Ret(BitOr8(lhs.val, rhs.val)) :
                    rhs \in {CheckedShr8(checks, At(slice, i + 1), 8 - shift)}} : TRUE :
            lhs \in {CheckedShl8(checks, At(slice, i), shift)}} : TRUE

\* for i in 0..bound { ... }: the passes run in order and the first panic
\* ends the call.  Pass Len(slice) panics on its index, so a bound that
\* wrapped never runs past it.
strip_ones_loop(checks, slice, shift, bound) ==
    LET passes == IF bound <= Len(slice) THEN bound ELSE Len(slice) + 1
    IN CHOOSE r \in
         {IF \E i \in 0..(passes - 1) : step[i].kind = "panic"
          THEN Panic
          ELSE Ret([j \in 1..bound |-> step[j - 1].val]) :
          step \in {[i \in 0..(passes - 1) |->
                       strip_ones_step(checks, slice, shift, i)]}} : TRUE

\* strip_ones from its loop on
strip_ones_slice(checks, ones, shift, slice) ==
    LET bound == CheckedSubUsize(checks, Len(slice), 2)
    IN IF bound.kind = "panic" THEN Panic
       ELSE
       LET last == CheckedSubUsize(checks, Len(slice), 1)
       IN CHOOSE r \in
            {IF looped.kind = "panic" \/ last.kind = "panic" THEN Panic
             ELSE IF last.val >= Len(slice) THEN Panic
             ELSE LET pushed == CheckedShl8(checks, At(slice, last.val), shift)
                  IN IF pushed.kind = "panic" THEN Panic
                     ELSE Ret([ones |-> ones,
                               vec |-> Append(looped.val, pushed.val)]) :
             looped \in {strip_ones_loop(checks, slice, shift, bound.val)}} : TRUE

\* strip_ones after its first line, ones being the value leading_ones returned
strip_ones_of(checks, sha512, ones) ==
    IF ones \div 8 > Len(sha512) THEN Panic
    ELSE CHOOSE r \in
           {strip_ones_slice(checks, ones, (ones % 8) + 1, slice) :
            slice \in {Slice(sha512, ones \div 8, Len(sha512))}} : TRUE

\* returns Ret([ones |-> u32, vec |-> Vec<u8>]) or Panic.  (The value of the
\* one call of leading_ones is bound by a singleton set, so that it is
\* evaluated once.)
strip_ones(checks, sha512) ==
    CHOOSE r \in {IF lo.kind = "panic" THEN Panic
                  ELSE strip_ones_of(checks, sha512, lo.val) :
                  lo \in {leading_ones(sha512)}} : TRUE

----------------------------------------------------------------------------
(* keys.rs: NodeId / TreeId *)

\* NodeId::strength, TreeId::strength
strength(self) == leading_ones(self)

\* the last prefix byte with the marker bit set (a subnet) or cleared (an
\* address): lines 247-251
marker_swapped(byte, net) ==
    IF net THEN BitAnd8(byte, ADDR_BYTE) ELSE BitOr8(byte, SNET_BYTE)
marker(byte, net) ==
    IF net THEN BitOr8(byte, SNET_BYTE) ELSE BitAnd8(byte, ADDR_BYTE)

\* assert!(prefix.len() <= if net { 6 } else { 14 })
prefix_len_unchecked(prefix, net) == TRUE
prefix_len_ok(prefix, net) == Len(prefix) <= (IF net THEN 6 ELSE 14)

\* let end = if net { 8 } else { 16 }
end_of_address(net) == 16
end_of(net) == IF net THEN 8 ELSE 16

\* ones as u8
as_u8_saturating(ones) == IF ones > 255 THEN 255 ELSE ones
as_u8(ones) == ones % 256

\* address_bytes from line 258 on: stripped is the (ones, remainder) that
\* strip_ones returned, bytes the buffer with the prefix copied in and its
\* last byte patched
address_bytes_fill(stripped, bytes, prefix, net) ==
    LET ones == stripped.ones
        remainder == stripped.vec
        end == end_of(net)
        count == end - (Len(prefix) + 1)
    IN IF count > Len(remainder) THEN Panic
       ELSE Ret(SubSeq([i \in 1..16 |->
                          IF i = Len(prefix) + 1 THEN as_u8(ones)
                          ELSE IF i > Len(prefix) + 1 /\ i <= end
                               THEN remainder[i - (Len(prefix) + 1)]
                               ELSE bytes[i]],
                       1, 16))

\* NodeId::address_bytes: Ret([u8; 16]) or Panic.  stripped is the result of
\* the call strip_ones(&self.0) of line 255, Ret((ones, remainder)) or Panic:
\* strip_ones reads nothing but self.0, so the callers below evaluate it once
\* for all the prefixes they pass.  It is looked at only where the code has
\* reached line 255.
address_bytes(checks, stripped, prefix, net) ==
    IF ~prefix_len_ok(prefix, net) THEN Panic
    ELSE
    LET bytes0 == [i \in 1..16 |-> IF i <= Len(prefix) THEN prefix[i] ELSE 0]
        last == CheckedSubUsize(checks, Len(prefix), 1)
    IN IF last.kind = "panic" THEN Panic
       ELSE IF last.val >= 16 THEN Panic
       ELSE
       LET bytes1 == [bytes0 EXCEPT ![last.val + 1] = marker(At(bytes0, last.val), net)]
       IN IF stripped.kind = "panic" THEN Panic
          ELSE address_bytes_fill(stripped.val, bytes1, prefix, net)

\* NodeId::address_with_prefix
address_with_prefix(checks, stripped, prefix) == address_bytes(checks, stripped, prefix, FALSE)
\* NodeId::subnet_with_prefix
subnet_with_prefix(checks, stripped, prefix) == address_bytes(checks, stripped, prefix, TRUE)
\* NodeId::address
address(checks, stripped) == address_with_prefix(checks, stripped, IP_PREFIX)
\* NodeId::subnet
subnet(checks, stripped) == subnet_with_prefix(checks, stripped, IP_PREFIX)

----------------------------------------------------------------------------
(* The hex codec (crate hex) as helper.rs and keys.rs use it.  A string is *)
(* a sequence of one-character strings.                                    *)

LowerDigits == <<"0", "1", "2", "3", "4", "5", "6", "7",
                 "8", "9", "a", "b", "c", "d", "e", "f">>
UpperDigits == <<"0", "1", "2", "3", "4", "5", "6", "7",
                 "8", "9", "A", "B", "C", "D", "E", "F">>

IsHexChar(c) == \E i \in 1..16 : LowerDigits[i] = c \/ UpperDigits[i] = c
HexVal(c) == (CHOOSE i \in 1..16 : LowerDigits[i] = c \/ UpperDigits[i] = c) - 1

HexOk(bytes) == [tag |-> "Ok", bytes |-> bytes]
HexErr(e) == [tag |-> "Err", err |-> e]

\* hex::encode: two lower-case digits per byte, high nibble first
hex_encode(bytes) ==
    SubSeq([j \in 1..(2 * Len(bytes)) |->
              IF j % 2 = 1 THEN LowerDigits[(bytes[(j + 1) \div 2] \div 16) + 1]
              ELSE LowerDigits[(bytes[(j + 1) \div 2] % 16) + 1]],
           1, 2 * Len(bytes))

\* hex::decode: an odd length and a character that is no hex digit are
\* errors; digits of either case are accepted
hex_decode_truncating(str) ==
    IF \E j \in 1..Len(str) : ~IsHexChar(str[j]) THEN HexErr("InvalidHexCharacter")
    ELSE HexOk(SubSeq([j \in 1..(Len(str) \div 2) |->
                         16 * HexVal(str[2 * j - 1]) + HexVal(str[2 * j])],
                      1, Len(str) \div 2))
hex_decode(str) ==
    IF Len(str) % 2 # 0 THEN HexErr("OddLength")
    ELSE IF \E j \in 1..Len(str) : ~IsHexChar(str[j]) THEN HexErr("InvalidHexCharacter")
    ELSE HexOk(SubSeq([j \in 1..(Len(str) \div 2) |->
                         16 * HexVal(str[2 * j - 1]) + HexVal(str[2 * j])],
                      1, Len(str) \div 2))

----------------------------------------------------------------------------
(* helper.rs: hex_pair_to_bytes *)

Ok(sec, pub) == [tag |-> "Ok", sec |-> sec, pub |-> pub]
Err(e) == [tag |-> "Err", err |-> e]

\* pub_bytes != pub_bytes_from_option
pub_keys_differ_inverted(pub_bytes, pub_bytes_from_option) == pub_bytes = pub_bytes_from_option
pub_keys_differ(pub_bytes, pub_bytes_from_option) == pub_bytes # pub_bytes_from_option

\* the match on the length of the decoded public input where the secret
\* input held no public half (lines 109-112)
public_alone_lenient(sec_bytes, bytes) ==
    IF Len(bytes) >= 32
    THEN Ret(Ok(sec_bytes, Some(Slice(bytes, 0, 32))))
    ELSE Ret(Err("WrongKeyLength"))
public_alone(sec_bytes, bytes) ==
    IF Len(bytes) = 32
    THEN Ret(Ok(sec_bytes, Some(Slice(bytes, 0, 32))))
    ELSE Ret(Err("WrongKeyLength"))

\* the second match (lines 94-116): sec_bytes and pub_bytes are the halves
\* the first match took from the secret input
hex_pair_public(sec_bytes, pub_bytes, public) ==
    IF pub_bytes # None
    THEN IF public # None
         THEN CHOOSE r \in
                {IF decoded.tag = "Err" THEN Ret(Err("Hex"))
                 ELSE IF Len(decoded.bytes) < 32 THEN Panic
                 ELSE LET pub_bytes_from_option == Slice(decoded.bytes, 0, 32)
                      IN IF pub_keys_differ(pub_bytes[1], pub_bytes_from_option)
                         THEN Ret(Err("ConflictingPubKeys"))
                         ELSE Ret(Ok(sec_bytes, Some(pub_bytes[1]))) :
                 decoded \in {hex_decode(public[1])}} : TRUE
         ELSE Ret(Ok(sec_bytes, Some(pub_bytes[1])))
    ELSE IF public # None
         THEN CHOOSE r \in
                {IF decoded.tag = "Err" THEN Ret(Err("Hex"))
                 ELSE public_alone(sec_bytes, decoded.bytes) :
                 decoded \in {hex_decode(public[1])}} : TRUE
         ELSE Ret(Ok(sec_bytes, None))

\* the first match (lines 84-92) on the decoded secret input, and then the
\* second
secret_split_lenient(bytes, public) ==
    IF Len(bytes) >= 64
    THEN hex_pair_public(Slice(bytes, 0, 32), Some(Slice(bytes, 32, 64)), public)
    ELSE IF Len(bytes) >= 32
         THEN hex_pair_public(Slice(bytes, 0, 32), None, public)
         ELSE Ret(Err("WrongKeyLength"))
secret_split(bytes, public) ==
    IF Len(bytes) = 64
    THEN hex_pair_public(Slice(bytes, 0, 32), Some(Slice(bytes, 32, 64)), public)
    ELSE IF Len(bytes) = 32
         THEN hex_pair_public(Slice(bytes, 0, 32), None, public)
         ELSE Ret(Err("WrongKeyLength"))

\* Ret(Ok((sec, pub))) or Ret(Err(e)) or Panic; public is None or Some(str)
hex_pair_to_bytes(secret, public) ==
    CHOOSE r \in
      {IF decoded.tag = "Err" THEN Ret(Err("Hex"))
       ELSE secret_split(decoded.bytes, public) :
       decoded \in {hex_decode(secret)}} : TRUE

----------------------------------------------------------------------------
(* keys.rs: SigningKeys.  ed25519_dalek is a dependency: of its keys the    *)
(* model keeps what from_hex and to_hex_* depend on.  A secret key is any   *)
(* 32 bytes.  PublicKey::from_bytes keeps the 32 bytes it is given and      *)
(* fails on those that encode no curve point; which bytes do is a fixed     *)
(* property of the bytes, here that the last byte is odd.  The public key   *)
(* of a secret key is a fixed function of it and encodes a point.           *)

OnCurve(bytes) == bytes[32] % 2 = 1

\* ed25519_dalek::PublicKey::from(&secret)
PublicKey_from_secret(secret) ==
    SubSeq([i \in 1..32 |->
              IF i = 32 THEN 2 * (((7 * secret[i] + 5 * i) % 256) \div 2) + 1
              ELSE (7 * secret[i] + 5 * i) % 256], 1, 32)

\* ed25519_dalek::PublicKey::from_bytes(&public)?
PublicKey_from_bytes(public) ==
    IF OnCurve(public) THEN HexOk(public) ELSE Err("InvalidSigKey")

\* the value Ok(Self(Keypair { secret, public }))
OkKeys(self) == [tag |-> "Ok", keys |-> self]

\* SigningKeys::from_hex: Ret(OkKeys(..)) or Ret(Err(e)) or Panic
from_hex(sig_sec_hex, sig_pub_hex) ==
    CHOOSE r \in
      {IF pair.kind = "panic" THEN Panic
       ELSE IF pair.val.tag = "Err" THEN Ret(Err(pair.val.err))
       ELSE IF pair.val.pub # None
            THEN IF PublicKey_from_bytes(pair.val.pub[1]).tag = "Ok"
                 THEN Ret(OkKeys([secret |-> pair.val.sec,
                                  public |-> PublicKey_from_bytes(pair.val.pub[1]).bytes]))
                 ELSE Ret(Err(PublicKey_from_bytes(pair.val.pub[1]).err))
            ELSE Ret(OkKeys([secret |-> pair.val.sec,
                             public |-> PublicKey_from_secret(pair.val.sec)])) :
       pair \in {hex_pair_to_bytes(sig_sec_hex, sig_pub_hex)}} : TRUE

\* SigningKeys::to_hex_split
to_hex_split(self) == <<hex_encode(self.secret), hex_encode(self.public)>>

\* SigningKeys::to_hex_joined: format!("{}{}", secret, public)
to_hex_joined_swapped(self) == to_hex_split(self)[2] \o to_hex_split(self)[1]
to_hex_joined(self) == to_hex_split(self)[1] \o to_hex_split(self)[2]

----------------------------------------------------------------------------
(* The ids and prefixes the model runs on *)

\* bytes after the leading 0xff run and the byte that ends it: tail 0 is
\* all zero, the others vary from byte to byte
TailByte(t, i) == (t * (37 * i + 11)) % 256

\* the byte that follows the run of 0xff bytes: every count of leading
\* one-bits 0..8, with the bits after the terminating zero clear or set
BoundaryBytes == {0, 127, 128, 191, 192, 224, 239, 240, 248, 251, 252, 254, 255}

\* k bytes 0xff, then byte b, then tail pattern t
MakeId(k, b, t) ==
    [i \in 1..IdLen |-> IF i <= k THEN 255 ELSE IF i = k + 1 THEN b ELSE TailByte(t, i)]

Ids == {MakeId(k, b, t) : k \in 0..IdLen, b \in BoundaryBytes, t \in 0..MaxTail}

\* prefixes of every length 0..MaxPrefixLen; the one of length 1 is IP_PREFIX
MakePrefix(len) == [i \in 1..len |-> (2 + 85 * (i - 1)) % 256]
Prefixes == {MakePrefix(len) : len \in 0..MaxPrefixLen}

----------------------------------------------------------------------------
(* The hex inputs the model runs on *)

\* byte i of secret key s, and of public key q: public key 1 differs from
\* public key 0 in its byte 32 alone, the others in every byte
SecByte(s, i) == (53 * s + 29 * i + 7) % 256
PubByte(q, i) == (111 * i + 3 + (IF q = 1 THEN (IF i = 32 THEN 1 ELSE 0) ELSE q)) % 256

\* the first n bytes of secret key s followed by public key p
SecretBytes(n, s, p) ==
    SubSeq([i \in 1..n |-> IF i <= 32 THEN SecByte(s, i) ELSE PubByte(p, i - 32)], 1, n)
\* the first n bytes of public key q
PublicBytes(n, q) == SubSeq([i \in 1..n |-> PubByte(q, i)], 1, n)

\* how the bytes are written: in lower or upper case, with the last
\* character missing, or with a character that is no hex digit
Forms == {"lower", "upper", "odd", "bad"}
Upper(str) ==
    SubSeq([j \in 1..Len(str) |-> UpperDigits[HexVal(str[j]) + 1]], 1, Len(str))
Written(bytes, form) ==
    LET str == hex_encode(bytes)
    IN IF form = "upper" THEN Upper(str)
       ELSE IF form = "odd" /\ Len(str) > 0 THEN SubSeq(str, 1, Len(str) - 1)
       ELSE IF form = "bad" /\ Len(str) > 0 THEN [str EXCEPT ![Len(str)] = "g"]
       ELSE str

SecretLens == {0, 31, 32, 33, 63, 64, 65}
PublicLens == {0, 31, 32, 33, 64}

SecretInputs ==
    {Written(SecretBytes(n, s, p), form) :
       n \in SecretLens, s \in 0..MaxSeed, p \in 0..MaxSeed, form \in Forms}
PublicInputs ==
    {None} \cup {Some(Written(PublicBytes(n, q), form)) :
                   n \in PublicLens, q \in 0..MaxSeed, form \in Forms}

----------------------------------------------------------------------------
(* State machine: one id (a NodeId or TreeId value), one build, one call.  *)
(* call is the method called with its arguments, ret what it returned.     *)

Init ==
    /\ id \in Ids
    /\ overflow_checks \in BOOLEAN
    /\ call = NoCall
    /\ ret = NoRet
    /\ keys = None

Strength ==
    /\ call = NoCall
    /\ call' = [op |-> "strength"]
    /\ ret' = Returned("u32", strength(id))
    /\ UNCHANGED <<id, overflow_checks, keys>>

AddressWithPrefix ==
    /\ call = NoCall
    /\ \E stripped \in {strip_ones(overflow_checks, id)} :
       \E prefix \in Prefixes :
          /\ call' = [op |-> "address_with_prefix", prefix |-> prefix, net |-> FALSE]
          /\ ret' = Returned("Ipv6Addr", address_with_prefix(overflow_checks, stripped, prefix))
    /\ UNCHANGED <<id, overflow_checks, keys>>

SubnetWithPrefix ==
    /\ call = NoCall
    /\ \E stripped \in {strip_ones(overflow_checks, id)} :
       \E prefix \in Prefixes :
          /\ call' = [op |-> "subnet_with_prefix", prefix |-> prefix, net |-> TRUE]
          /\ ret' = Returned("Ipv6Addr", subnet_with_prefix(overflow_checks, stripped, prefix))
    /\ UNCHANGED <<id, overflow_checks, keys>>

Address ==
    /\ call = NoCall
    /\ call' = [op |-> "address", prefix |-> IP_PREFIX, net |-> FALSE]
    /\ \E stripped \in {strip_ones(overflow_checks, id)} :
          ret' = Returned("Ipv6Addr", address(overflow_checks, stripped))
    /\ UNCHANGED <<id, overflow_checks, keys>>

Subnet ==
    /\ call = NoCall
    /\ call' = [op |-> "subnet", prefix |-> IP_PREFIX, net |-> TRUE]
    /\ \E stripped \in {strip_ones(overflow_checks, id)} :
          ret' = Returned("Ipv6Addr", subnet(overflow_checks, stripped))
    /\ UNCHANGED <<id, overflow_checks, keys>>

\* strip_ones(&self.0), the call address_bytes makes, taken alone
StripOnes ==
    /\ call = NoCall
    /\ call' = [op |-> "strip_ones"]
    /\ ret' = Returned("(u32, Vec<u8>)", strip_ones(overflow_checks, id))
    /\ UNCHANGED <<id, overflow_checks, keys>>

Next ==
    \/ Strength
    \/ AddressWithPrefix
    \/ SubnetWithPrefix
    \/ Address
    \/ Subnet
    \/ StripOnes

Spec == Init /\ [][Next]_vars

----------------------------------------------------------------------------
(* State machine of the hex import: one call of hex_pair_to_bytes *)

\* the NodeId of src/tests.rs: the hex import does not read it
NODE_ID ==
    <<255, 255, 242, 27, 189, 218, 3, 36, 110, 169, 248, 85, 190, 110, 238, 175,
      27, 175, 128, 157, 193, 81, 224, 248, 47, 252, 172, 27, 227, 206, 197, 244,
      206, 9, 83, 221, 204, 248, 179, 32, 43, 242, 14, 185, 103, 121, 130, 41,
      146, 113, 13, 32, 30, 7, 203, 87, 33, 182, 110, 157, 2, 245, 71, 7>>

InitHex ==
    /\ id = NODE_ID
    /\ overflow_checks \in BOOLEAN
    /\ call = NoCall
    /\ ret = NoRet
    /\ keys = None

HexPairToBytes ==
    /\ call = NoCall
    /\ \E secret \in SecretInputs, public \in PublicInputs :
          /\ call' = [op |-> "hex_pair_to_bytes", secret |-> secret, public |-> public]
          /\ ret' = Returned("Result", hex_pair_to_bytes(secret, public))
    /\ UNCHANGED <<id, overflow_checks, keys>>

NextHex == HexPairToBytes

SpecHex == InitHex /\ [][NextHex]_vars

----------------------------------------------------------------------------
(* State machine of the signing keys: keys is the SigningKeys value the     *)
(* program holds, None before one is made.  It is made by new or from_hex,  *)
(* exported by to_hex_split and to_hex_joined, and the string to_hex_joined *)
(* returned can be imported again.                                          *)

InitKeys ==
    /\ id = NODE_ID
    /\ overflow_checks \in BOOLEAN
    /\ call = NoCall
    /\ ret = NoRet
    /\ keys = None

\* SigningKeys::new: a generated secret key and its public key
New ==
    /\ call = NoCall
    /\ \E s \in 0..MaxSeed :
          keys' = Some([secret |-> SecretBytes(32, s, 0),
                        public |-> PublicKey_from_secret(SecretBytes(32, s, 0))])
    /\ call' = [op |-> "new"]
    /\ ret' = Returned("SigningKeys", Ret("Self"))
    /\ UNCHANGED <<id, overflow_checks>>

\* SigningKeys::from_hex, called first with strings of the input family, or
\* after to_hex_joined with the string that returned and no public string
FromHex ==
    /\ call.op \in {"none", "to_hex_joined"}
    /\ \E secret \in (IF call.op = "none" THEN SecretInputs ELSE {ret.val}),
          public \in (IF call.op = "none" THEN PublicInputs ELSE {None}) :
       \E r \in {from_hex(secret, public)} :
          /\ call' = [op |-> "from_hex", secret |-> secret, public |-> public]
          /\ ret' = Returned("Result<SigningKeys>", r)
          /\ keys' = IF r.kind = "return" /\ r.val.tag = "Ok"
                     THEN Some(r.val.keys) ELSE keys
    /\ UNCHANGED <<id, overflow_checks>>

ToHexSplit ==
    /\ call.op \in {"new", "from_hex"}
    /\ keys # None
    /\ call' = [op |-> "to_hex_split"]
    /\ ret' = Returned("(String, String)", Ret(to_hex_split(keys[1])))
    /\ UNCHANGED <<id, overflow_checks, keys>>

ToHexJoined ==
    /\ call.op \in {"new", "from_hex"}
    /\ keys # None
    /\ call' = [op |-> "to_hex_joined"]
    /\ ret' = Returned("String", Ret(to_hex_joined(keys[1])))
    /\ UNCHANGED <<id, overflow_checks, keys>>

NextKeys == New \/ FromHex \/ ToHexSplit \/ ToHexJoined

SpecKeys == InitKeys /\ [][NextKeys]_vars

----------------------------------------------------------------------------
(* Properties of the NodeId / TreeId operations (specification Spec) *)

\* bit n of a byte string read as a big-endian bitstring: bit 0 is the
\* most-significant bit of byte 0
IdBit(s, n) == Bit(s[(n \div 8) + 1], 7 - (n % 8))

\* n is the length of the longest prefix of s made of 1-bits only
IsLongestOnesPrefix(s, n) ==
    /\ n \in 0..(8 * Len(s))
    /\ \A m \in 0..(n - 1) : IdBit(s, m) = 1
    /\ n = 8 * Len(s) \/ IdBit(s, n) = 0

\* the call returned the value v
Returns(v) == ret.kind = "return" /\ ret.val = v

\* a call of address, subnet, address_with_prefix or subnet_with_prefix
\* that returned its 16 bytes
Derived ==
    /\ call.op \in {"address", "subnet", "address_with_prefix", "subnet_with_prefix"}
    /\ ret.kind = "return"

\* C1: strength() (leading_ones of the id) returns the length of the longest
\* prefix of the id made of 1-bits only, the id read as a big-endian
\* bitstring, most-significant bit of byte 0 first.
C1_StrengthIsLongestOnesPrefix ==
    call.op = "strength" =>
        ret.kind = "return" /\ IsLongestOnesPrefix(id, ret.val)

\* a run of 20 ones: two bytes 0xff and the four high bits of 0xf0
C1_Witness ==
    /\ call.op = "strength"
    /\ id[3] = 240
    /\ Returns(20)

\* C2 (as claimed): in every derived address or subnet, the bytes from index
\* len(prefix)+1 up to end (16 for an address, 8 for a subnet) hold, bit for
\* bit, the bits of the id from bit position leading_ones(id)+1 on.
C2_RemainderHoldsBitsAfterRun ==
    Derived =>
        \A ones \in {leading_ones(id).val} :
        \A i \in (Len(call.prefix) + 1)..((IF call.net THEN 8 ELSE 16) - 1) :
        \A b \in 0..7 :
            Bit(At(ret.val, i), 7 - b)
              = IdBit(id, ones + 1 + 8 * (i - (Len(call.prefix) + 1)) + b)

\* C3: a derived address or subnet starts with the prefix: the bytes before
\* the last prefix byte are the prefix bytes, and the last prefix byte keeps
\* all its bits but the least-significant, which is 0 in an address and 1 in
\* a subnet; address() starts with 0x02 and subnet() with 0x03.
C3_StartsWithPrefix ==
    Derived =>
        /\ Len(call.prefix) >= 1
        /\ \A i \in 1..(Len(call.prefix) - 1) : ret.val[i] = call.prefix[i]
        /\ ret.val[Len(call.prefix)]
             = 2 * (call.prefix[Len(call.prefix)] \div 2) + (IF call.net THEN 1 ELSE 0)
        /\ call.op = "address" => ret.val[1] = 2
        /\ call.op = "subnet" => ret.val[1] = 3

\* a subnet of a 3-byte prefix whose last byte 0xac becomes 0xad, and an
\* address of a 2-byte prefix whose last byte 0x57 becomes 0x56
C3_Witness ==
    \/ /\ Derived
       /\ call.op = "subnet_with_prefix"
       /\ call.prefix = <<2, 87, 172>>
       /\ ret.val[3] = 173
    \/ /\ Derived
       /\ call.op = "address_with_prefix"
       /\ call.prefix = <<2, 87>>
       /\ ret.val[2] = 86

\* C4: in every derived address or subnet the byte at index len(prefix) is
\* leading_ones(id) mod 256.
C4_OnesByteIsCountMod256 ==
    Derived => At(ret.val, Len(call.prefix)) = leading_ones(id).val % 256

\* an id with 260 leading ones, whose count byte is 4
C4_Witness ==
    /\ Derived
    /\ leading_ones(id).val = 260
    /\ At(ret.val, Len(call.prefix)) = 4

\* C5 (as claimed): strength() returns a value in 0..256.
C5_StrengthAtMost256 ==
    call.op = "strength" => ret.kind = "return" /\ ret.val \in 0..256

\* C5 (amended): strength() returns a value in 0..512, the number of bits of
\* the 64-byte id.
C5_StrengthAtMost512 ==
    call.op = "strength" => ret.kind = "return" /\ ret.val \in 0..(8 * IdLen)

\* the id of 64 bytes 0xff has strength 512
C5_Witness ==
    /\ call.op = "strength"
    /\ \A i \in 1..IdLen : id[i] = 255
    /\ Returns(512)

------------------------------------------------------------\* C13: a call with a prefix longer than 6 bytes for a subnet, or longer
\* than 14 bytes for an address, stops in the assertion: it returns no 16
\* bytes, whatever the id and the build are.
C13_LongPrefixPanics ==
    /\ call.op \in {"address_with_prefix", "subnet_with_prefix"}
    /\ Len(call.prefix) > (IF call.net THEN 6 ELSE 14)
    => ret.kind = "panic"

\* a subnet asked for a 7-byte prefix and an address for a 15-byte prefix, of
\* an id that has no leading ones
C13_Witness ==
    /\ id[1] = 0
    /\ ret.kind = "panic"
    /\ \/ call.op = "subnet_with_prefix" /\ Len(call.prefix) = 7
       \/ call.op = "address_with_prefix" /\ Len(call.prefix) = 15

\* C14: leading_ones reads no byte index outside 0..63, and on the id of
\* 64 bytes 0xff it stops when the bytes are exhausted and returns 512.
C14_LeadingOnesReadsInRange ==
    call.op = "strength" =>
        /\ leading_ones_reads(id) \subseteq 0..(Len(id) - 1)
        /\ ret.kind = "return"
        /\ (\A i \in 1..Len(id) : id[i] = 255) => ret.val = 8 * Len(id)

\* on the id of 64 bytes 0xff every byte is read, the last one included
C14_Witness ==
    /\ call.op = "strength"
    /\ id = [i \in 1..IdLen |-> 255]
    /\ leading_ones_reads(id) = 0..(IdLen - 1)
    /\ ret.kind = "return"

\* the number of leading 1-bits of s, counted on its bits
OnesOf(s) == CHOOSE n \in 0..(8 * Len(s)) : IsLongestOnesPrefix(s, n)

\* bit n of s, and 0 past its end
BitOrZero(s, n) == IF n < 8 * Len(s) THEN IdBit(s, n) ELSE 0

\* s without its first n bits, in len bytes: bit n + j of s is bit j
BitsFrom(s, n, len) ==
    [j \in 1..len |->
       128 * BitOrZero(s, n + 8 * (j - 1)) + 64 * BitOrZero(s, n + 8 * (j - 1) + 1)
       + 32 * BitOrZero(s, n + 8 * (j - 1) + 2) + 16 * BitOrZero(s, n + 8 * (j - 1) + 3)
       + 8 * BitOrZero(s, n + 8 * (j - 1) + 4) + 4 * BitOrZero(s, n + 8 * (j - 1) + 5)
       + 2 * BitOrZero(s, n + 8 * (j - 1) + 6) + BitOrZero(s, n + 8 * (j - 1) + 7)]

\* C15 (as claimed): strip_ones returns (count, remainder) with count the
\* number of leading ones of the input and remainder the input without its
\* first count+1 bits, re-aligned to bit 0 and filled with zero bits in its
\* last byte.
C15_StripOnesRealigns ==
    call.op = "strip_ones" =>
        /\ ret.kind = "return"
        /\ ret.val.ones = OnesOf(id)
        /\ ret.val.vec
             = BitsFrom(id, OnesOf(id) + 1, Len(id) - ((OnesOf(id) + 1) \div 8))

\* C16 (as claimed): the remainder strip_ones returns has
\* len(input) - floor((leading_ones(input)+1)/8) bytes.
C16_StripOnesLengthLaw ==
    call.op = "strip_ones" /\ ret.kind = "return"
        => Len(ret.val.vec) = Len(id) - ((OnesOf(id) + 1) \div 8)

\* C17 (as claimed): where the number of leading ones is 7 mod 8, the
\* remainder strip_ones returns is the input from byte
\* (leading_ones(input)+1)/8 on, each byte as it was.
C17_StripOnesAlignedMovesNoBits ==
    call.op = "strip_ones" /\ ret.kind = "return" /\ OnesOf(id) % 8 = 7
        => ret.val.vec = SubSeq(id, ((OnesOf(id) + 1) \div 8) + 1, Len(id))

\* C19 (as claimed): strip_ones returns a result for every 64-byte input.
C19_StripOnesTotal ==
    call.op = "strip_ones" => ret.kind = "return"

\* C18: for a prefix of 1..6 bytes, the subnet has bytes 8..15 all zero, and
\* its bytes 0..7 are those of the address of the same id and prefix but for
\* the least-significant bit of byte len(prefix)-1.
C18_SubnetIsAddressWithHostZeroed ==
    Derived /\ call.net /\ Len(call.prefix) \in 1..6 =>
        /\ \A i \in 8..15 : At(ret.val, i) = 0
        /\ \A addr \in {address_with_prefix(overflow_checks,
                                             strip_ones(overflow_checks, id),
                                             call.prefix)} :
              addr.kind = "return" =>
                 \A i \in 0..7 :
                    IF i = Len(call.prefix) - 1
                    THEN At(ret.val, i) \div 2 = At(addr.val, i) \div 2
                    ELSE At(ret.val, i) = At(addr.val, i)

\* a subnet of a 6-byte prefix, of an id whose address has a host part that
\* is not zero, and whose subnet has a last byte that is not zero
C18_Witness ==
    /\ Derived
    /\ call.op = "subnet_with_prefix"
    /\ Len(call.prefix) = 6
    /\ At(ret.val, 7) # 0
    /\ \A addr \in {address_with_prefix(overflow_checks,
                                         strip_ones(overflow_checks, id),
                                         call.prefix)} :
          /\ addr.kind = "return"
          /\ \E i \in 8..15 : At(addr.val, i) # 0

\* C20 (as claimed): for a prefix that passes the length assertion, the
\* empty prefix included, and an id on which strip_ones returns, every index
\* and slice of address_bytes is in range and 16 bytes are returned.
C20_AddressBytesInRange ==
    /\ call.op \in {"address", "subnet", "address_with_prefix", "subnet_with_prefix"}
    /\ Len(call.prefix) <= (IF call.net THEN 6 ELSE 14)
    /\ strip_ones(overflow_checks, id).kind = "return"
    => ret.kind = "return" /\ Len(ret.val) = 16

----------------
(* Properties of hex_pair_to_bytes (specification SpecHex) *)

HexCall == call.op = "hex_pair_to_bytes"

\* the secret input of the call is valid hex of n bytes
SecretDecodesTo(n) ==
    /\ HexCall
    /\ hex_decode(call.secret).tag = "Ok"
    /\ Len(hex_decode(call.secret).bytes) = n

\* the public input of the call is present and valid hex
PublicDecodes ==
    /\ HexCall
    /\ call.public # None
    /\ hex_decode(call.public[1]).tag = "Ok"

SecretBytesOfCall == hex_decode(call.secret).bytes
PublicBytesOfCall == hex_decode(call.public[1]).bytes

\* C6: with a secret input of 64 bytes, a public input that is absent, or
\* whose 32 bytes are bytes 32..64 of the secret input, gives
\* Ok((bytes 0..32, Some(bytes 32..64))), and a public input whose 32 bytes
\* differ from bytes 32..64 gives the error ConflictingPubKeys.
C6_KeypairSecret ==
    SecretDecodesTo(64) =>
        /\ call.public = None
             => Returns(Ok(SubSeq(SecretBytesOfCall, 1, 32),
                           Some(SubSeq(SecretBytesOfCall, 33, 64))))
        /\ PublicDecodes /\ Len(PublicBytesOfCall) = 32
             => IF PublicBytesOfCall = SubSeq(SecretBytesOfCall, 33, 64)
                THEN Returns(Ok(SubSeq(SecretBytesOfCall, 1, 32),
                                Some(SubSeq(SecretBytesOfCall, 33, 64))))
                ELSE Returns(Err("ConflictingPubKeys"))

\* a public input of 32 bytes that differs from the embedded public half in
\* its last byte alone is a conflict
C6_Witness ==
    /\ SecretDecodesTo(64)
    /\ PublicDecodes
    /\ Len(PublicBytesOfCall) = 32
    /\ SubSeq(PublicBytesOfCall, 1, 31) = SubSeq(SecretBytesOfCall, 33, 63)
    /\ PublicBytesOfCall[32] # SecretBytesOfCall[64]
    /\ Returns(Err("ConflictingPubKeys"))

\* C7: a secret input that is valid hex of a length other than 32 or 64
\* bytes gives the error WrongKeyLength, whatever the public input is.
C7_SecretOfOtherLength ==
    /\ HexCall
    /\ hex_decode(call.secret).tag = "Ok"
    /\ Len(SecretBytesOfCall) \notin {32, 64}
    => Returns(Err("WrongKeyLength"))

\* a secret input of 65 bytes with a public input that is no valid hex
C7_Witness ==
    /\ SecretDecodesTo(65)
    /\ call.public # None
    /\ hex_decode(call.public[1]).tag = "Err"
    /\ Returns(Err("WrongKeyLength"))

\* C8: with a secret input of 32 bytes, an absent public input gives None
\* as the public half, a public input of exactly 32 bytes gives Some(those
\* bytes), and a public input of any other length gives the error
\* WrongKeyLength.
C8_SecretAlone ==
    SecretDecodesTo(32) =>
        /\ call.public = None => Returns(Ok(SecretBytesOfCall, None))
        /\ PublicDecodes
             => IF Len(PublicBytesOfCall) = 32
                THEN Returns(Ok(SecretBytesOfCall, Some(PublicBytesOfCall)))
                ELSE Returns(Err("WrongKeyLength"))

\* a secret input of 32 bytes with a public input of 33 bytes
C8_Witness ==
    /\ SecretDecodesTo(32)
    /\ PublicDecodes
    /\ Len(PublicBytesOfCall) = 33
    /\ Returns(Err("WrongKeyLength"))

\* C9 (as claimed): with a secret input of 64 bytes and a public input of
\* fewer than 32 bytes the call returns the error WrongKeyLength.
C9_ShortPublicIsWrongKeyLength ==
    SecretDecodesTo(64) /\ PublicDecodes /\ Len(PublicBytesOfCall) < 32
        => Returns(Err("WrongKeyLength"))

\* C10 (as claimed): the call never returns Ok when the public input is
\* present and decodes to a length other than 32 bytes.
C10_NoOkUnlessPublicIs32Bytes ==
    PublicDecodes /\ Len(PublicBytesOfCall) # 32
        => ~(ret.kind = "return" /\ ret.val.tag = "Ok")

\* str is valid hex: an even number of characters, each of them a hex digit
ValidHex(str) == Len(str) % 2 = 0 /\ \A j \in 1..Len(str) : IsHexChar(str[j])

\* C11 (as claimed): a secret input or a supplied public input that is not
\* valid hex gives the error Hex, whatever the other input is.
C11_MalformedHexIsHexError ==
    /\ HexCall
    /\ \/ ~ValidHex(call.secret)
       \/ call.public # None /\ ~ValidHex(call.public[1])
    => Returns(Err("Hex"))

\* C11 (amended): a secret input that is not valid hex gives the error Hex,
\* whatever the public input is; a supplied public input that is not valid
\* hex gives the error Hex where the secret input is valid hex of 32 or of
\* 64 bytes, and is not looked at where the secret input is of another
\* length, which gives WrongKeyLength.
C11_MalformedHexAfterSecret ==
    HexCall =>
        /\ ~ValidHex(call.secret) => Returns(Err("Hex"))
        /\ ValidHex(call.secret) /\ call.public # None /\ ~ValidHex(call.public[1])
             => IF Len(call.secret) \in {64, 128}
                THEN Returns(Err("Hex"))
                ELSE Returns(Err("WrongKeyLength"))

\* a secret input of 64 bytes with a public input of odd length, and a
\* secret input with a character that is no hex digit
C11_Witness ==
    /\ HexCall
    /\ Returns(Err("Hex"))
    /\ \/ /\ ValidHex(call.secret)
          /\ Len(call.secret) = 128
          /\ call.public # None
          /\ Len(call.public[1]) % 2 = 1
       \/ /\ Len(call.secret) = 128
          /\ call.secret[128] = "g"
          /\ call.public = None

----------------------------------------------------------------------------
(* Properties of the signing keys (specification SpecKeys) *)

\* every character of str is a digit or a lower-case letter a..f
IsLowerHex(str) == \A j \in 1..Len(str) : \E i \in 1..16 : LowerDigits[i] = str[j]

\* from_hex has just made the keys held from a string secret || public
ImportedPair ==
    /\ call.op = "from_hex"
    /\ Returns(OkKeys(keys[1]))
    /\ Len(call.secret) = 128

\* this step imports, with no public string, the string that to_hex_joined
\* returned for the keys held
ReimportStep ==
    /\ call.op = "to_hex_joined"
    /\ call'.op = "from_hex"

\* the import returned keys with the bytes of the keys exported
ReimportGivesSameKeys ==
    /\ call'.public = None
    /\ ret'.kind = "return"
    /\ ret'.val = OkKeys(keys[1])
    /\ keys' = keys

\* the export that follows the import of a 128-character string returns that
\* string, or its two halves
ExportGivesImportedString ==
    /\ call'.op = "to_hex_joined" => ret'.val = call.secret
    /\ call'.op = "to_hex_split"
         => ret'.val = <<SubSeq(call.secret, 1, 64), SubSeq(call.secret, 65, 128)>>

\* C12 (as claimed): importing the string to_hex_joined produced, with no
\* public string, gives keys with the same secret and public bytes; and
\* exporting keys imported from a string secret || public returns that same
\* string from to_hex_joined and its two 64-character halves from
\* to_hex_split.
C12_RoundTripAnyCase ==
    [][/\ ReimportStep => ReimportGivesSameKeys
       /\ ImportedPair /\ call'.op \in {"to_hex_joined", "to_hex_split"}
            => ExportGivesImportedString]_vars

\* C12 (amended): importing the string to_hex_joined produced, with no
\* public string, gives keys with the same secret and public bytes; and
\* exporting keys imported from a string secret || public written in
\* lower-case hex returns that same string from to_hex_joined and its two
\* 64-character halves from to_hex_split.
C12_RoundTripLowerCase ==
    [][/\ ReimportStep => ReimportGivesSameKeys
       /\ ImportedPair /\ IsLowerHex(call.secret)
            /\ call'.op \in {"to_hex_joined", "to_hex_split"}
            => ExportGivesImportedString]_vars

\* generated keys were exported and imported again: the keys held are those
\* of new, the last call imported their export
C12_Witness ==
    /\ call.op = "from_hex"
    /\ call.public = None
    /\ keys # None
    /\ keys[1].public = PublicKey_from_secret(keys[1].secret)
    /\ keys[1].public # SubSeq(SecretBytes(64, 0, 0), 33, 64)
    /\ call.secret = hex_encode(keys[1].secret) \o hex_encode(keys[1].public)
    /\ Returns(OkKeys(keys[1]))

====
